---- MODULE Spec2Model ----
(***************************************************************************)
(* Naumachia manager (src/manager/app/naum.py): the Manager, Challenge and *)
(* User objects, the RPC threads that call into them, and the parts of the *)
(* host (netlink interfaces, compose projects, docker networks) that the   *)
(* code reads and changes; and the process around them                     *)
(* (src/manager/app/manager.py): main(), the signal handler, shutdown.     *)
(*                                                                         *)
(* Strings the code slices, pads or decodes (common names, interface       *)
(* names) are sequences of one-character strings.                          *)
(***************************************************************************)
EXTENDS Integers, Sequences, FiniteSets, TLC

\* ------------------------------------------------------------- constants

\* random.randint(10, 4000) in Challenge._next_vlan
VLAN_MIN == 10
VLAN_MAX == 4000
\* the 15 in User._vlan_ifname (the kernel's interface-name limit)
IFNAMSIZ == 15
\* the compose down timeouts of add_connection, remove_connection and stop
TIMEOUT_STALE == 3
TIMEOUT_DRAIN == 10
TIMEOUT_STOP == 2

\* ---------------------------------------------------------------- bounds

\* how many of the highest VLAN IDs random.randint is let to return, beside
\* VLAN_MIN
NumHighVlans == 1
\* how many client ports the OpenVPN hooks report
NumPorts == 2
\* how many signals (SIGINT, SIGTERM) the process receives
MaxSignals == 2

Min(a, b) == IF a < b THEN a ELSE b

Range(s) == {s[i] : i \in 1..Len(s)}

\* ------------------------------------------------------- string helpers

Digit == <<"0", "1", "2", "3", "4", "5", "6", "7", "8", "9">>

\* '{}'.format(n) of a non-negative integer
RECURSIVE str(_)
str(n) == IF n < 10 THEN <<Digit[n + 1]>> ELSE str(n \div 10) \o <<Digit[(n % 10) + 1]>>

UpperCase == <<"A", "B", "C", "D", "E", "F", "G", "H", "I", "J", "K", "L", "M",
               "N", "O", "P", "Q", "R", "S", "T", "U", "V", "W", "X", "Y", "Z">>
LowerCase == <<"a", "b", "c", "d", "e", "f", "g", "h", "i", "j", "k", "l", "m",
               "n", "o", "p", "q", "r", "s", "t", "u", "v", "w", "x", "y", "z">>

\* str.lower()
lower(s) ==
    [i \in 1..Len(s) |->
        IF s[i] \in Range(UpperCase)
        THEN LowerCase[CHOOSE k \in 1..26 : UpperCase[k] = s[i]]
        ELSE s[i]]

\* ------------------------------------------------ common-name decoding

\* the RFC 4648 base32 alphabet of base64.b32decode (casefold=False)
B32Alphabet == UpperCase \o <<"2", "3", "4", "5", "6", "7">>

b32rev(ch) == (CHOOSE k \in 1..32 : B32Alphabet[k] = ch) - 1

\* s without its trailing '=' characters
RECURSIVE rstrip(_)
rstrip(s) == IF Len(s) > 0 /\ s[Len(s)] = "=" THEN rstrip(SubSeq(s, 1, Len(s) - 1)) ELSE s

\* bit i (1 = most significant of 5) of a base32 digit value
DigitBit(v, i) == (v \div (2 ^ (5 - i))) % 2

\* the bits of a sequence of base32 digits, most significant first
Bits(digits) ==
    [i \in 1..(5 * Len(digits)) |->
        DigitBit(b32rev(digits[((i - 1) \div 5) + 1]), ((i - 1) % 5) + 1)]

ByteAt(bits, k) ==
    LET b(j) == bits[8 * (k - 1) + j]
    IN  128 * b(1) + 64 * b(2) + 32 * b(3) + 16 * b(4) + 8 * b(5) + 4 * b(6) + 2 * b(7) + b(8)

\* base64.b32decode(s): ok and the decoded bytes, or ~ok (binascii.Error)
b32decode(s) ==
    LET digits == rstrip(s)
        padchars == Len(s) - Len(digits)
    IN  IF Len(s) % 8 # 0 THEN [ok |-> FALSE, bytes |-> <<>>]
        ELSE IF \E i \in 1..Len(digits) : digits[i] \notin Range(B32Alphabet)
        THEN [ok |-> FALSE, bytes |-> <<>>]
        ELSE IF padchars \notin {0, 1, 3, 4, 6} THEN [ok |-> FALSE, bytes |-> <<>>]
        ELSE [ok |-> TRUE,
              bytes |-> [k \in 1..((5 * Len(digits)) \div 8) |-> ByteAt(Bits(digits), k)]]

IsCont(b) == b >= 128 /\ b <= 191

\* bytes.decode('utf-8') succeeds on bs from position i on
RECURSIVE Utf8Valid(_, _)
Utf8Valid(bs, i) ==
    LET n == Len(bs)
        b0 == bs[i]
        c(j) == i + j <= n /\ IsCont(bs[i + j])
    IN  IF i > n THEN TRUE
        ELSE IF b0 <= 127 THEN Utf8Valid(bs, i + 1)
        ELSE IF b0 >= 194 /\ b0 <= 223 THEN c(1) /\ Utf8Valid(bs, i + 2)
        ELSE IF b0 = 224
        THEN c(1) /\ bs[i + 1] >= 160 /\ c(2) /\ Utf8Valid(bs, i + 3)
        ELSE IF b0 = 237
        THEN c(1) /\ bs[i + 1] <= 159 /\ c(2) /\ Utf8Valid(bs, i + 3)
        ELSE IF b0 >= 225 /\ b0 <= 239 THEN c(1) /\ c(2) /\ Utf8Valid(bs, i + 3)
        ELSE IF b0 = 240
        THEN c(1) /\ bs[i + 1] >= 144 /\ c(2) /\ c(3) /\ Utf8Valid(bs, i + 4)
        ELSE IF b0 = 244
        THEN c(1) /\ bs[i + 1] <= 143 /\ c(2) /\ c(3) /\ Utf8Valid(bs, i + 4)
        ELSE IF b0 >= 241 /\ b0 <= 243 THEN c(1) /\ c(2) /\ c(3) /\ Utf8Valid(bs, i + 4)
        ELSE FALSE

\* User.decode_cn: [err |-> "", bytes |-> the decoded name], or err names the
\* exception base64.b32decode or bytes.decode raises
decode_cn(cn) ==
    LET missing_padding == Len(cn) % 8
        padded == IF missing_padding # 0
                  THEN cn \o [i \in 1..(8 - missing_padding) |-> "="]
                  ELSE cn
        raw == b32decode(padded)
    IN  IF ~raw.ok THEN [err |-> "binascii.Error", bytes |-> <<>>]
        ELSE IF ~Utf8Valid(raw.bytes, 1) THEN [err |-> "UnicodeDecodeError", bytes |-> <<>>]
        ELSE [err |-> "", bytes |-> raw.bytes]

\* User._fmt_address: '{}:{}'.format(address, port)
_fmt_address(address, port) == address \o <<":">> \o str(port)

\* --------------------------------------------------------------- inputs

Threads == {"t1", "t2"}
NoThread == "nobody"

Example == <<"e", "x", "a", "m", "p", "l", "e">>
Middle == <<"m", "i", "d", "d", "l", "e">>
ChallengeNames == {Example, Middle}

\* host-side VETH devices that exist on the host
Host0 == <<"h", "o", "s", "t", "0">>
VethChal1 == <<"v", "e", "t", "h", "h", "o", "s", "t", "-", "c", "h", "a", "l", "1">>
VethChal2 == <<"v", "e", "t", "h", "h", "o", "s", "t", "-", "c", "h", "a", "l", "2">>
HostVeths == {Host0, VethChal1, VethChal2}

ExYml == <<"ex.yml">>
MidYml == <<"mid.yml", "override.yml">>
\* a compose file whose services all use the host's network: the project gets
\* no default network
HostNetYml == <<"hostnet.yml">>

\* common names: "MFRGG" (abc), "MFRA" (ab), "ZZZZ" (bytes CE 73: not UTF-8)
CnAbc == <<"M", "F", "R", "G", "G">>
CnAb == <<"M", "F", "R", "A">>
CnZZZZ == <<"Z", "Z", "Z", "Z">>
CNs == {CnAbc, CnAb, CnZZZZ}

ClientIp == <<"1", "0", ".", "8", ".", "0", ".", "2">>
Ports == {49152 + k : k \in 0..(NumPorts - 1)}

\* the values random.randint(VLAN_MIN, VLAN_MAX) is let to return
RandInts == {VLAN_MIN} \cup {v \in VLAN_MIN..VLAN_MAX : v > VLAN_MAX - NumHighVlans}

Hook(name, cn, port) == [name |-> name, cn |-> cn, address |-> ClientIp, port |-> port]

\* A deployment: the register_challenge calls its startup scripts make, and the
\* (challenge, cn, ip, port) tuples its connect and disconnect hooks send.
\* One challenge with one client on several ports and a client whose common
\* name does not decode, registered a second time with other arguments:
OneClient ==
    [registers |-> { [name |-> Example, host_veth |-> VethChal1, compose_files |-> ExYml],
                     [name |-> Example, host_veth |-> Host0, compose_files |-> MidYml] },
     hooks |-> {Hook(Example, CnAbc, p) : p \in Ports} \cup {Hook(Example, CnZZZZ, 49152)}]
\* one challenge with two clients:
TwoClients ==
    [registers |-> { [name |-> Example, host_veth |-> Host0, compose_files |-> ExYml] },
     hooks |-> {Hook(Example, CnAbc, 49152), Hook(Example, CnAb, 49152)}]
\* two challenges on two host VETHs, the same client on each:
TwoChallenges ==
    [registers |-> { [name |-> Example, host_veth |-> VethChal1, compose_files |-> ExYml],
                     [name |-> Middle, host_veth |-> VethChal2, compose_files |-> MidYml] },
     hooks |-> {Hook(Example, CnAbc, 49152), Hook(Middle, CnAbc, 49152)}]

\* one challenge whose compose file defines no default network, one client:
NoDefaultNet ==
    [registers |-> { [name |-> Example, host_veth |-> Host0, compose_files |-> HostNetYml] },
     hooks |-> {Hook(Example, CnAbc, 49152)}]

Deployments == {OneClient, TwoClients, TwoChallenges, NoDefaultNet}

\* ---------------------------------------------------------------- state

VARIABLES
    challenges,       \* Manager.challenges: name -> Challenge (vlans, users, ...)
    challenges_lock,  \* Manager.challenges_lock: the thread holding it
    users_lock,       \* Challenge.users_lock, by challenge name
    user_lock,        \* User.lock, by <<challenge name, cn>>
    interfaces,       \* the host's interfaces (ipdb.interfaces): ifname -> link state
    networks,         \* docker networks <id>_default: project id -> bridge state
    running,          \* the compose projects with running processes
    pc,               \* where each RPC thread is
    args,             \* the arguments of the call each thread serves
    ret,              \* the outcome of each thread's call
    effects,          \* what each call has done so far: the compose and netlink
                      \* operations it issued and the User it constructed
    before,           \* the connections the call found when it took the User's lock
    deployment,       \* the calls this deployment's scripts and hooks make
    main_pc,          \* manager.py: where the main thread is in main()
    is_shutdown,      \* manager.py: the global is_shutdown
    shutdown_request, \* the server's flag that ends serve_forever (server.shutdown())
    workers,          \* the threads sig_handler has started, by signal number
    signals,          \* how many signals the process has received
    stop_todo         \* Manager._stop: the challenges its loop has yet to visit

vars == <<challenges, challenges_lock, users_lock, user_lock, interfaces, networks,
          running, pc, args, ret, effects, before, deployment,
          main_pc, is_shutdown, shutdown_request, workers, signals, stop_todo>>

mgr == <<challenges, challenges_lock, users_lock, user_lock>>
host == <<interfaces, networks, running>>
\* the process around the Manager: main(), the signal handler and its threads
srv == <<main_pc, is_shutdown, shutdown_request, workers, signals, stop_todo>>
\* the RPC threads
rpc == <<pc, args, ret, effects, before>>

NoIf == <<>>
NoArgs == [op |-> "", name |-> <<>>, cn |-> <<>>, address |-> <<>>, port |-> 0,
           host_veth |-> <<>>, compose_files |-> <<>>]
NoRet == [kind |-> "", value |-> 0, exc |-> ""]

\* the state after Manager() and the server's construction, before the first
\* request, for one of the deployments ds
Start(ds) ==
    /\ challenges = <<>>
    /\ challenges_lock = NoThread
    /\ users_lock = [n \in ChallengeNames |-> NoThread]
    /\ user_lock = [k \in ChallengeNames \X CNs |-> NoThread]
    /\ interfaces = [i \in HostVeths |->
                        [kind |-> "veth", link |-> NoIf, vlan_id |-> 0,
                         state |-> "down", master |-> NoIf]]
    /\ networks = <<>>
    /\ running = {}
    /\ pc = [t \in Threads |-> "idle"]
    /\ args = [t \in Threads |-> NoArgs]
    /\ ret = [t \in Threads |-> NoRet]
    /\ effects = [t \in Threads |-> <<>>]
    /\ before = [t \in Threads |-> {}]
    /\ deployment \in ds
    /\ main_pc = "serve_forever"
    /\ is_shutdown = FALSE
    /\ shutdown_request = FALSE
    /\ workers = [k \in 1..MaxSignals |-> "none"]
    /\ signals = 0
    /\ stop_todo = {}

Init == Start(Deployments)

\* --------------------------------------------------------- small helpers

\* f with key k bound to v (dict store)
Store(f, k, v) == [x \in (DOMAIN f) \cup {k} |-> IF x = k THEN v ELSE f[x]]
\* f without key k
Drop(f, k) == [x \in (DOMAIN f) \ {k} |-> f[x]]

\* the Challenge and the User a thread's call is about
Chal(t) == challenges[args[t].name]
TheUser(t) == challenges[args[t].name].users[args[t].cn]
UKey(t) == <<args[t].name, args[t].cn>>

\* a lock that excludes nobody
FreeAlways(lock, t) == TRUE

\* an RLock can be taken by a thread when free or already its own
Free(lock, t) == lock \in {NoThread, t}

\* the call returns value (None: kind "none")
Return(t, kind, value) ==
    /\ pc' = [pc EXCEPT ![t] = "done"]
    /\ ret' = [ret EXCEPT ![t] = [kind |-> kind, value |-> value, exc |-> ""]]

\* the call ends with an exception, carried to the RPC caller as a fault
Raise(t, exc) ==
    /\ pc' = [pc EXCEPT ![t] = "raised"]
    /\ ret' = [ret EXCEPT ![t] = [kind |-> "raise", value |-> 0, exc |-> exc]]

Goto(t, label) ==
    /\ pc' = [pc EXCEPT ![t] = label]
    /\ UNCHANGED ret

Did(t, op) == effects' = [effects EXCEPT ![t] = Append(@, op)]

\* A thread that has its outcome hands it to its caller before any other thread
\* is looked at: the hand-over (Respond) touches nothing the threads share, so
\* every state of the Manager and the host is still reached.
Returning == {t \in Threads : pc[t] \in {"done", "raised"}}
At(t, label) == pc[t] = label /\ Returning = {}

\* ------------------------------------------------------------- the host

\* the compose files give the project a default network
DefinesDefault(compose_files) == compose_files # HostNetYml

\* docker-compose up --detach with the --file arguments of _get_compose_cmd: the
\* project's default network (a bridge carrying the gateway address) is created
\* unless it exists or the files define none, and the containers start
ComposeUp(id, compose_files) ==
    /\ running' = running \cup {id}
    /\ networks' = IF id \in DOMAIN networks \/ ~DefinesDefault(compose_files)
                   THEN networks
                   ELSE Store(networks, id, [ipaddr |-> TRUE])

\* docker-compose down: the containers stop and the default network goes, and
\* with its bridge the enslavement of the bridge's ports
ComposeDown(id) ==
    /\ running' = running \ {id}
    /\ networks' = Drop(networks, id)
    /\ interfaces' = [i \in DOMAIN interfaces |->
                        IF interfaces[i].master = id
                        THEN [interfaces[i] EXCEPT !.master = NoIf]
                        ELSE interfaces[i]]

\* --------------------------------------------------------------- User

\* User.__init__: self.id
UserId(cn, chal_name) == lower(cn) \o <<"_">> \o chal_name

\* User.__init__, after decode_cn succeeded with the bytes decoded
NewUserObject(cn, v, chal_name, decoded) ==
    [connections |-> {}, cn |-> cn, name |-> decoded, vlan |-> v,
     id |-> UserId(cn, chal_name)]

\* User._vlan_ifname
_vlan_ifname(user, chal) ==
    LET suffix == <<".">> \o str(user.vlan)
        ifname == chal.host_veth
    IN  SubSeq(ifname, 1, Min(Len(ifname), IFNAMSIZ - Len(suffix))) \o suffix

VlanIfname(t) == _vlan_ifname(TheUser(t), Chal(t))

SetUser(t, u) ==
    challenges' = [challenges EXCEPT ![args[t].name].users[args[t].cn] = u]

LockUser(t) == user_lock' = [user_lock EXCEPT ![UKey(t)] = t]
\* a method of User that returns without releasing self.lock
UnlockUserForgotten(t) == UNCHANGED user_lock
UnlockUser(t) == user_lock' = [user_lock EXCEPT ![UKey(t)] = NoThread]

\* ------------------------------------------------------------ Manager

\* an RPC request reaches the server and a thread starts to serve it
Begin(t, a) ==
    /\ At(t, "idle")
    /\ main_pc = "serve_forever"
    /\ UNCHANGED <<before, deployment, srv>>
    /\ args' = [args EXCEPT ![t] = a]
    /\ effects' = [effects EXCEPT ![t] = <<>>]

\* Manager.register_challenge is called: with self.challenges_lock
CallRegister(t) ==
    \E r \in deployment.registers :
        /\ Begin(t, [NoArgs EXCEPT !.op = "register_challenge", !.name = r.name,
                                   !.host_veth = r.host_veth,
                                   !.compose_files = r.compose_files])
        /\ Free(challenges_lock, t)
        /\ challenges_lock' = t
        /\ Goto(t, "reg_body")
        /\ UNCHANGED <<challenges, users_lock, user_lock, host>>

\* register_challenge without its duplicate check
RegisteredNever(name) == FALSE

\* name in self.challenges
Registered(name) == name \in DOMAIN challenges

\* Challenge.__init__
NewChallenge(a) ==
    [name |-> a.name, host_veth |-> a.host_veth, compose_files |-> a.compose_files,
     vlans |-> {}, users |-> <<>>]

\* the body of register_challenge, under the lock, with Challenge.__init__
RegBody(t) ==
    /\ At(t, "reg_body")
    /\ challenges_lock' = NoThread
    /\ UNCHANGED <<users_lock, user_lock, networks, running, args, before, deployment, srv>>
    /\ IF Registered(args[t].name)
       THEN /\ Return(t, "none", 0)
            /\ UNCHANGED <<challenges, interfaces, effects>>
       ELSE IF args[t].host_veth \notin DOMAIN interfaces
       THEN /\ Raise(t, "KeyError")
            /\ UNCHANGED <<challenges, interfaces, effects>>
       ELSE \/ /\ interfaces' = [interfaces EXCEPT ![args[t].host_veth].state = "up"]
               /\ challenges' = Store(challenges, args[t].name, NewChallenge(args[t]))
               /\ Did(t, <<"link up", args[t].host_veth>>)
               /\ Return(t, "none", 0)
            \/ /\ Raise(t, "NetlinkError")
               /\ UNCHANGED <<challenges, interfaces, effects>>

\* _ensure_user_exists constructs a User on every call
UserMissingAlways(chal, cn) == TRUE

\* cn not in self.users
UserMissing(chal, cn) == cn \notin DOMAIN chal.users

\* the lookup of an unregistered name answered like a duplicate registration
LookupFailsQuietly(t) == Return(t, "none", 0)

\* self.challenges[name] with a name that is no key of the dict
LookupFails(t) == Raise(t, "KeyError")

\* Manager.connect_user or Manager.disconnect_user is called: self.challenges[name],
\* and the check of Challenge._ensure_user_exists outside the lock
CallHook(t) ==
    \E op \in {"connect_user", "disconnect_user"}, h \in deployment.hooks :
        /\ Begin(t, [NoArgs EXCEPT !.op = op, !.name = h.name, !.cn = h.cn,
                                   !.address = h.address, !.port = h.port])
        /\ IF ~Registered(h.name) THEN LookupFails(t)
           ELSE IF UserMissing(challenges[h.name], h.cn) THEN Goto(t, "ensure_lock")
           ELSE Goto(t, "user_op")
        /\ UNCHANGED <<mgr, host>>

\* ---------------------------------------------------------- Challenge

\* _ensure_user_exists with the User's method called inside with self.users_lock
EnsureLockKept(t) ==
    /\ At(t, "ensure_lock")
    /\ Free(users_lock[args[t].name], t)
    /\ users_lock' = [users_lock EXCEPT ![args[t].name] = t]
    /\ IF UserMissing(Chal(t), args[t].cn) THEN Goto(t, "next_vlan") ELSE Goto(t, "user_op")
    /\ UNCHANGED <<challenges, challenges_lock, user_lock, host, args, effects, before,
                   deployment, srv>>

\* Challenge._ensure_user_exists: with self.users_lock, the check repeated
EnsureLock(t) ==
    /\ At(t, "ensure_lock")
    /\ Free(users_lock[args[t].name], t)
    /\ IF UserMissing(Chal(t), args[t].cn)
       THEN /\ users_lock' = [users_lock EXCEPT ![args[t].name] = t]
            /\ Goto(t, "next_vlan")
       ELSE /\ users_lock' = [users_lock EXCEPT ![args[t].name] = NoThread]
            /\ Goto(t, "user_op")
    /\ UNCHANGED <<challenges, challenges_lock, user_lock, host, args, effects, before, deployment, srv>>

\* the membership test of _next_vlan left out: any p_vlan is taken
VlanUnusedAlways(chal, p_vlan) == TRUE

\* p_vlan not in self.vlans
VlanUnused(chal, p_vlan) == p_vlan \notin chal.vlans

\* Challenge._next_vlan: one turn of the loop. With an unused p_vlan the loop ends
\* and self.users[cn] = User(cn, self) follows under the same lock; the
\* with block is left by the store or by the exception of User.__init__
NextVlan(t) ==
    /\ At(t, "next_vlan")
    /\ \E p_vlan \in RandInts :
          IF VlanUnused(Chal(t), p_vlan)
          THEN LET d == decode_cn(args[t].cn)
                   taken == [Chal(t) EXCEPT !.vlans = @ \cup {p_vlan}]
               IN  /\ users_lock' = [users_lock EXCEPT ![args[t].name] = NoThread]
                   /\ IF d.err # ""
                      THEN /\ Raise(t, d.err)
                           /\ UNCHANGED effects
                           /\ challenges' = [challenges EXCEPT ![args[t].name] = taken]
                      ELSE /\ Goto(t, "user_op")
                           /\ Did(t, <<"User", args[t].cn, p_vlan>>)
                           /\ challenges' = [challenges EXCEPT ![args[t].name] =
                                 [taken EXCEPT !.users =
                                     Store(@, args[t].cn,
                                           NewUserObject(args[t].cn, p_vlan, args[t].name,
                                                         d.bytes))]]
          ELSE UNCHANGED <<challenges, users_lock, pc, ret, effects>>
    /\ UNCHANGED <<challenges_lock, user_lock, host, args, before, deployment, srv>>

\* ------------------------------------------------- User.add_connection

\* the last lines of add_connection, and Challenge.connect_user's return user.vlan
AddAndReturn(t) ==
    /\ SetUser(t, [TheUser(t) EXCEPT
                      !.connections = @ \cup {_fmt_address(args[t].address, args[t].port)}])
    /\ UnlockUser(t)
    /\ Return(t, "value", TheUser(t).vlan)

\* add_connection boots the cluster on every call
NoConnectionsAlways(user) == TRUE

\* len(self.connections) == 0
NoConnections(user) == Cardinality(user.connections) = 0

\* address not in self.connections
NotConnected(user, address) == address \notin user.connections

\* the last lines of the with block of remove_connection are skipped: return
LeaveRemove(t) ==
    /\ UnlockUser(t)
    /\ Return(t, "none", 0)

\* Challenge.connect_user, Challenge.disconnect_user: user = self.users[cn], and
\* the user's method up to its first compose call
UserOp(t) ==
    /\ At(t, "user_op")
    /\ Free(user_lock[UKey(t)], t)
    /\ before' = [before EXCEPT ![t] = TheUser(t).connections]
    /\ IF args[t].op = "connect_user"
       THEN IF NoConnections(TheUser(t))
            THEN /\ LockUser(t)
                 /\ Goto(t, "ac_probe")
                 /\ UNCHANGED challenges
            ELSE AddAndReturn(t)
       ELSE LET address == _fmt_address(args[t].address, args[t].port)
                left == TheUser(t).connections \ {address}
            IN  IF NotConnected(TheUser(t), address)
                THEN /\ LeaveRemove(t)
                     /\ UNCHANGED challenges
                ELSE /\ SetUser(t, [TheUser(t) EXCEPT !.connections = left])
                     /\ IF Cardinality(left) = 0
                        THEN /\ LockUser(t)
                             /\ Goto(t, "rc_probe")
                        ELSE LeaveRemove(t)
    /\ UNCHANGED <<challenges_lock, users_lock, host, args, effects, deployment, srv>>

\* an exception leaves the with self.lock block of a User's method
Fail(t, exc) ==
    /\ Raise(t, exc)
    /\ UnlockUser(t)

\* add_connection without the test of is_running: compose up follows at once
AcProbeSkipsDown(t) ==
    /\ At(t, "ac_probe")
    /\ Did(t, <<"top">>)
    /\ Goto(t, "ac_up")
    /\ UNCHANGED <<challenges, challenges_lock, users_lock, user_lock, host, args, before,
                   deployment, srv>>

\* add_connection: if self.is_running()
AcProbe(t) ==
    /\ At(t, "ac_probe")
    /\ \/ /\ Did(t, <<"top">>)
          /\ IF TheUser(t).id \in running THEN Goto(t, "ac_down") ELSE Goto(t, "ac_up")
          /\ UNCHANGED user_lock
       \/ /\ Fail(t, "CalledProcessError")
          /\ UNCHANGED effects
    /\ UNCHANGED <<challenges, challenges_lock, users_lock, host, args, before, deployment, srv>>

\* add_connection: self.stop_compose(timeout=3)
AcDown(t) ==
    /\ At(t, "ac_down")
    /\ \/ /\ ComposeDown(TheUser(t).id)
          /\ Did(t, <<"down", TIMEOUT_STALE>>)
          /\ Goto(t, "ac_up")
          /\ UNCHANGED user_lock
       \/ /\ Fail(t, "CalledProcessError")
          /\ UNCHANGED <<host, effects>>
    /\ UNCHANGED <<challenges, challenges_lock, users_lock, args, before, deployment, srv>>

\* add_connection: subprocess.check_call(... 'up', '--detach')
AcUp(t) ==
    /\ At(t, "ac_up")
    /\ \/ /\ ComposeUp(TheUser(t).id, Chal(t).compose_files)
          /\ Did(t, <<"up">>)
          /\ Goto(t, "evb_create")
          /\ UNCHANGED <<user_lock, interfaces>>
       \/ /\ Fail(t, "CalledProcessError")
          /\ UNCHANGED <<host, effects>>
    /\ UNCHANGED <<challenges, challenges_lock, users_lock, args, before, deployment, srv>>

\* ensure_vlan_bridged: the VLAN sub-interface is created unless one of its name exists
EvbCreate(t) ==
    /\ At(t, "evb_create")
    /\ IF VlanIfname(t) \notin DOMAIN interfaces
       THEN \/ /\ interfaces' = Store(interfaces, VlanIfname(t),
                      [kind |-> "vlan", link |-> Chal(t).host_veth,
                       vlan_id |-> TheUser(t).vlan, state |-> "down", master |-> NoIf])
               /\ Did(t, <<"create vlan", VlanIfname(t)>>)
               /\ Goto(t, "evb_up")
               /\ UNCHANGED user_lock
            \/ /\ Fail(t, "NetlinkError")
               /\ UNCHANGED <<interfaces, effects>>
       ELSE /\ Goto(t, "evb_up")
            /\ UNCHANGED <<interfaces, effects, user_lock>>
    /\ UNCHANGED <<challenges, challenges_lock, users_lock, networks, running, args, before, deployment, srv>>

\* ensure_vlan_bridged: vlan_if.up().commit()
EvbUp(t) ==
    /\ At(t, "evb_up")
    /\ \/ /\ VlanIfname(t) \in DOMAIN interfaces
          /\ interfaces' = [interfaces EXCEPT ![VlanIfname(t)].state = "up"]
          /\ Did(t, <<"link up", VlanIfname(t)>>)
          /\ Goto(t, "evb_bridge")
          /\ UNCHANGED user_lock
       \/ /\ Fail(t, "NetlinkError")
          /\ UNCHANGED <<interfaces, effects>>
    /\ UNCHANGED <<challenges, challenges_lock, users_lock, networks, running, args, before, deployment, srv>>

\* User._get_bridge_iface finds the default network of the project
HasDefaultNetwork(user) == user.id \in DOMAIN networks

\* ensure_vlan_bridged: vlan_if.master != bridge_if.index
NotEnslaved(vlan_if, bridge) == vlan_if.master # bridge

\* ensure_vlan_bridged that stops the cluster when the bridge cannot be used
EvbBridgeStopsCluster(t) ==
    /\ At(t, "evb_bridge")
    /\ ComposeDown(TheUser(t).id)
    /\ Fail(t, "NetlinkError")
    /\ UNCHANGED <<challenges, challenges_lock, users_lock, args, effects, before,
                   deployment, srv>>

\* ensure_vlan_bridged: the bridge is found, stripped of its addresses and given the port
EvbBridge(t) ==
    /\ At(t, "evb_bridge")
    /\ IF ~HasDefaultNetwork(TheUser(t))
       THEN /\ Fail(t, "ValueError")
            /\ UNCHANGED <<interfaces, networks, effects>>
       ELSE \/ /\ VlanIfname(t) \in DOMAIN interfaces
               /\ IF NotEnslaved(interfaces[VlanIfname(t)], TheUser(t).id)
                  THEN /\ networks' = [networks EXCEPT ![TheUser(t).id].ipaddr = FALSE]
                       /\ interfaces' = [interfaces EXCEPT
                                            ![VlanIfname(t)].master = TheUser(t).id]
                       /\ effects' = [effects EXCEPT ![t] =
                              @ \o << <<"del_ip", TheUser(t).id>>,
                                      <<"add_port", TheUser(t).id, VlanIfname(t)>> >>]
                  ELSE UNCHANGED <<interfaces, networks, effects>>
               /\ Goto(t, "ac_add")
               /\ UNCHANGED user_lock
            \/ /\ Fail(t, "NetlinkError")
               /\ UNCHANGED <<interfaces, networks, effects>>
    /\ UNCHANGED <<challenges, challenges_lock, users_lock, running, args, before, deployment, srv>>

\* add_connection: self.connections.add(address)
AcAdd(t) ==
    /\ At(t, "ac_add")
    /\ AddAndReturn(t)
    /\ UNCHANGED <<challenges_lock, users_lock, host, args, effects, before, deployment, srv>>

\* ---------------------------------------------- User.remove_connection

\* remove_connection: if not self.is_running()
RcProbe(t) ==
    /\ At(t, "rc_probe")
    /\ \/ /\ Did(t, <<"top">>)
          /\ IF TheUser(t).id \in running
             THEN /\ Goto(t, "rc_down")
                  /\ UNCHANGED user_lock
             ELSE LeaveRemove(t)
       \/ /\ Fail(t, "CalledProcessError")
          /\ UNCHANGED effects
    /\ UNCHANGED <<challenges, challenges_lock, users_lock, host, args, before, deployment, srv>>

\* remove_connection: self.stop_compose()
RcDown(t) ==
    /\ At(t, "rc_down")
    /\ \/ /\ ComposeDown(TheUser(t).id)
          /\ Did(t, <<"down", TIMEOUT_DRAIN>>)
          /\ Goto(t, "rc_gone")
          /\ UNCHANGED user_lock
       \/ /\ Fail(t, "CalledProcessError")
          /\ UNCHANGED <<host, effects>>
    /\ UNCHANGED <<challenges, challenges_lock, users_lock, args, before, deployment, srv>>

\* remove_connection without its call of ensure_vlan_gone
RcGoneKeepsVlan(t) ==
    /\ At(t, "rc_gone")
    /\ LeaveRemove(t)
    /\ UNCHANGED <<challenges, challenges_lock, users_lock, host, args, effects, before,
                   deployment, srv>>

\* remove_connection: self.ensure_vlan_gone()
RcGone(t) ==
    /\ At(t, "rc_gone")
    /\ IF VlanIfname(t) \in DOMAIN interfaces
       THEN \/ /\ interfaces' = Drop(interfaces, VlanIfname(t))
               /\ Did(t, <<"remove", VlanIfname(t)>>)
               /\ LeaveRemove(t)
            \/ /\ Fail(t, "NetlinkError")
               /\ UNCHANGED <<interfaces, effects>>
       ELSE /\ LeaveRemove(t)
            /\ UNCHANGED <<interfaces, effects>>
    /\ UNCHANGED <<challenges, challenges_lock, users_lock, networks, running, args, before, deployment, srv>>

\* ------------------------------------------------------ the RPC server

\* the response (a value, null or a fault) is sent and the thread is free again
Respond(t) ==
    /\ pc[t] \in {"done", "raised"}
    /\ pc' = [pc EXCEPT ![t] = "idle"]
    /\ args' = [args EXCEPT ![t] = NoArgs]
    /\ ret' = [ret EXCEPT ![t] = NoRet]
    /\ effects' = [effects EXCEPT ![t] = <<>>]
    /\ before' = [before EXCEPT ![t] = {}]
    /\ UNCHANGED <<mgr, host, deployment, srv>>

Next ==
    \E t \in Threads :
        \/ CallRegister(t)
        \/ RegBody(t)
        \/ CallHook(t)
        \/ EnsureLock(t)
        \/ NextVlan(t)
        \/ UserOp(t)
        \/ AcProbe(t)
        \/ AcDown(t)
        \/ AcUp(t)
        \/ EvbCreate(t)
        \/ EvbUp(t)
        \/ EvbBridge(t)
        \/ AcAdd(t)
        \/ RcProbe(t)
        \/ RcDown(t)
        \/ RcGone(t)
        \/ Respond(t)

Spec == Init /\ [][Next]_vars

\* ------------------------------------------- manager.py: the process

\* the main thread, as the holder of a lock
MainThread == "main"

\* one challenge with one client
OneHook ==
    [registers |-> { [name |-> Example, host_veth |-> Host0, compose_files |-> ExYml] },
     hooks |-> {Hook(Example, CnAbc, 49152)}]

InitServer == Start({OneHook})

\* SIGINT or SIGTERM arrives: sig_handler runs in the main thread
sig_handler ==
    /\ signals < MaxSignals
    /\ main_pc \notin {"exited", "crashed"}
    /\ signals' = signals + 1
    /\ workers' = IF ~is_shutdown THEN [workers EXCEPT ![signals + 1] = "started"]
                  ELSE workers
    /\ UNCHANGED <<mgr, host, rpc, deployment, main_pc, is_shutdown, shutdown_request,
                   stop_todo>>

\* shutdown(), in the thread of signal k: is_shutdown = True
ShutdownFlag(k) ==
    /\ workers[k] = "started"
    /\ is_shutdown' = TRUE
    /\ workers' = [workers EXCEPT ![k] = "flagged"]
    /\ UNCHANGED <<mgr, host, rpc, deployment, main_pc, shutdown_request, signals, stop_todo>>

\* shutdown(), in the thread of signal k: server.shutdown()
ShutdownServer(k) ==
    /\ workers[k] = "flagged"
    /\ shutdown_request' = TRUE
    /\ workers' = [workers EXCEPT ![k] = "called"]
    /\ UNCHANGED <<mgr, host, rpc, deployment, main_pc, is_shutdown, signals, stop_todo>>

\* main: server.serve_forever() returns, between two requests
ServeExit ==
    /\ main_pc = "serve_forever"
    /\ shutdown_request
    /\ \A t \in Threads : pc[t] = "idle"
    /\ main_pc' = "server_close"
    /\ UNCHANGED <<mgr, host, rpc, deployment, is_shutdown, shutdown_request, workers,
                   signals, stop_todo>>

\* main: server.server_close(), the listening socket is closed
ServerClose ==
    /\ main_pc = "server_close"
    /\ main_pc' = "_stop"
    /\ UNCHANGED <<mgr, host, rpc, deployment, is_shutdown, shutdown_request, workers,
                   signals, stop_todo>>

\* Manager._stop: with self.challenges_lock, and the loop over the challenges begins
StopLock ==
    /\ main_pc = "_stop"
    /\ Free(challenges_lock, MainThread)
    /\ challenges_lock' = MainThread
    /\ stop_todo' = DOMAIN challenges
    /\ main_pc' = "for_challenges"
    /\ UNCHANGED <<challenges, users_lock, user_lock, host, rpc, deployment, is_shutdown,
                   shutdown_request, workers, signals>>

\* Challenge.disconnect_all of the next challenge: with self.users_lock
DisconnectAll ==
    /\ main_pc = "for_challenges"
    /\ \E c \in stop_todo :
          /\ Free(users_lock[c], MainThread)
          /\ users_lock' = [users_lock EXCEPT ![c] = MainThread]
    /\ main_pc' = "for_users"
    /\ UNCHANGED <<challenges, challenges_lock, user_lock, host, rpc, deployment,
                   is_shutdown, shutdown_request, workers, signals, stop_todo>>

\* disconnect_all: for u in self.users: u.stop(). The loop runs over the keys
\* of the dict, so u is a common name, a str, and u.stop raises AttributeError
\* at the first User; the exception leaves both with blocks and main()
ForUsers ==
    /\ main_pc = "for_users"
    /\ LET c == CHOOSE n \in stop_todo : users_lock[n] = MainThread
       IN  /\ users_lock' = [users_lock EXCEPT ![c] = NoThread]
           /\ IF DOMAIN challenges[c].users # {}
              THEN /\ main_pc' = "crashed"
                   /\ challenges_lock' = NoThread
                   /\ UNCHANGED stop_todo
              ELSE /\ main_pc' = "for_challenges"
                   /\ stop_todo' = stop_todo \ {c}
                   /\ UNCHANGED challenges_lock
    /\ UNCHANGED <<challenges, user_lock, host, rpc, deployment, is_shutdown,
                   shutdown_request, workers, signals>>

\* _stop after its loop: dockerc.close(), ipdb.release(), host_ns.close()
StopRelease ==
    /\ main_pc = "for_challenges"
    /\ stop_todo = {}
    /\ challenges_lock' = NoThread
    /\ main_pc' = "exited"
    /\ UNCHANGED <<challenges, users_lock, user_lock, host, rpc, deployment, is_shutdown,
                   shutdown_request, workers, signals, stop_todo>>

NextServer ==
    \/ Next
    \/ sig_handler
    \/ \E k \in 1..MaxSignals : ShutdownFlag(k) \/ ShutdownServer(k)
    \/ ServeExit
    \/ ServerClose
    \/ StopLock
    \/ DisconnectAll
    \/ ForUsers
    \/ StopRelease

ServerSpec == InitServer /\ [][NextServer]_vars

\* ----------------------------------------------- a crowded challenge

\* one challenge, two clients whose names decode
Crowded ==
    [registers |-> { [name |-> Example, host_veth |-> Host0, compose_files |-> ExYml] },
     hooks |-> {Hook(Example, CnAbc, 49152), Hook(Example, CnAb, 49152)}]

\* The Manager late in a long run: challenge example is registered and the VLAN
\* IDs of [10, 4000] are in use, all of them or all but one that random.randint
\* still draws (every connect_user whose common name does not decode has left
\* one ID in use, and so has every User created), and no User is connected.
InitCrowded ==
    /\ \E free \in {{}} \cup {{v} : v \in RandInts} :
          challenges = Store(<<>>, Example,
                             [NewChallenge(CHOOSE r \in Crowded.registers : TRUE)
                                 EXCEPT !.vlans = (VLAN_MIN..VLAN_MAX) \ free])
    /\ challenges_lock = NoThread
    /\ users_lock = [n \in ChallengeNames |-> NoThread]
    /\ user_lock = [k \in ChallengeNames \X CNs |-> NoThread]
    /\ interfaces = [i \in HostVeths |->
                        [kind |-> "veth", link |-> NoIf, vlan_id |-> 0,
                         state |-> IF i = Host0 THEN "up" ELSE "down", master |-> NoIf]]
    /\ networks = <<>>
    /\ running = {}
    /\ pc = [t \in Threads |-> "idle"]
    /\ args = [t \in Threads |-> NoArgs]
    /\ ret = [t \in Threads |-> NoRet]
    /\ effects = [t \in Threads |-> <<>>]
    /\ before = [t \in Threads |-> {}]
    /\ deployment = Crowded
    /\ main_pc = "serve_forever"
    /\ is_shutdown = FALSE
    /\ shutdown_request = FALSE
    /\ workers = [k \in 1..MaxSignals |-> "none"]
    /\ signals = 0
    /\ stop_todo = {}

\* what a thread does once it serves a call: the scheduler runs every thread
\* that can run, every compose and netlink call returns, and random.randint
\* draws every value again and again
Runs(t) ==
    \/ RegBody(t) \/ EnsureLock(t) \/ NextVlan(t) \/ UserOp(t)
    \/ AcProbe(t) \/ AcDown(t) \/ AcUp(t) \/ EvbCreate(t) \/ EvbUp(t) \/ EvbBridge(t)
    \/ AcAdd(t) \/ RcProbe(t) \/ RcDown(t) \/ RcGone(t) \/ Respond(t)

CrowdedSpec == InitCrowded /\ [][Next]_vars /\ \A t \in Threads : WF_vars(Runs(t))

\* ------------------------------------------------------------ properties

Users(c) == {challenges[c].users[cn] : cn \in DOMAIN challenges[c].users}

\* the states of a User: LIVE with a connection, IDLE without
Live(u) == u.connections # {}
Idle(u) == u.connections = {}

\* the name of the VLAN sub-interface of a User of challenge c
IfnameOf(c, u) == _vlan_ifname(u, challenges[c])

\* the address a hook call names
Addr(t) == _fmt_address(args[t].address, args[t].port)

Returned(t, op) == pc[t] = "done" /\ args[t].op = op

\* the compose and netlink operations a call has issued
IsHostOp(e) == e[1] # "User"
Issued(t) == SelectSeq(effects[t], IsHostOp)

\* an RPC has just returned or raised and no other call is under way
Quiescent == Returning # {} /\ \A t \in Threads : pc[t] \in {"idle", "done", "raised"}

\* C1: after an RPC has returned or raised, the VLANs of a Challenge's Users
\* are exactly its in-use VLANs: no VLAN is in use without an owning User.
C1_AllocatorConsistent ==
    Returning # {} =>
        \A c \in DOMAIN challenges : {u.vlan : u \in Users(c)} = challenges[c].vlans

\* C2: in every state the Users of one Challenge have pairwise distinct VLAN
\* IDs, each within [10, 4000].
C2_VlansDistinctInRange ==
    \A c \in DOMAIN challenges :
        \A cn1, cn2 \in DOMAIN challenges[c].users :
            /\ challenges[c].users[cn1].vlan \in 10..4000
            /\ cn1 # cn2 => challenges[c].users[cn1].vlan # challenges[c].users[cn2].vlan

\* two Users of one Challenge exist while both threads are serving calls
C2_TwoUsers ==
    /\ \E c \in DOMAIN challenges : Cardinality(DOMAIN challenges[c].users) = 2
    /\ \A t \in Threads : pc[t] # "idle"

\* the wiring of a LIVE User: project running, sub-interface up and enslaved to
\* the bridge of the project's default network, bridge without addresses
Wired(c, u) ==
    /\ u.id \in running
    /\ u.id \in DOMAIN networks
    /\ ~networks[u.id].ipaddr
    /\ IfnameOf(c, u) \in DOMAIN interfaces
    /\ interfaces[IfnameOf(c, u)].state = "up"
    /\ interfaces[IfnameOf(c, u)].master = u.id

\* C3: after an RPC has returned, with no other call under way, every LIVE
\* User is wired.
C3_LiveWired ==
    Quiescent =>
        \A c \in DOMAIN challenges : \A u \in Users(c) : Live(u) => Wired(c, u)

\* C4: after an RPC has returned or raised, with no other call under way, no
\* interface with the name of its VLAN sub-interface exists for an IDLE User.
C4_IdleNoVlanIf ==
    Quiescent =>
        \A c \in DOMAIN challenges : \A u \in Users(c) :
            Idle(u) => IfnameOf(c, u) \notin DOMAIN interfaces

\* C5: a disconnect_user of a recorded connection that returns has issued
\* nothing and left the cluster up when connections remain; when it removed the
\* last one it has probed, run compose down with timeout 10 and then removed
\* the VLAN sub-interface where there was one, and the User is IDLE: no
\* connection, no running project, no sub-interface.
C5_DrainTearsDown ==
    \A t \in Threads :
        (Returned(t, "disconnect_user") /\ Addr(t) \in before[t]) =>
            LET u == TheUser(t)
                ifname == IfnameOf(args[t].name, u)
            IN  /\ u.connections = before[t] \ {Addr(t)}
                /\ IF Live(u)
                   THEN Issued(t) = <<>> /\ u.id \in running
                   ELSE /\ Issued(t) \in { << <<"top">>, <<"down", 10>> >>,
                                            << <<"top">>, <<"down", 10>>,
                                               <<"remove", ifname>> >> }
                        /\ u.id \notin running
                        /\ ifname \notin DOMAIN interfaces

\* the last connection was removed, the cluster torn down, the sub-interface removed
C5_Drained ==
    \E t \in Threads :
        /\ Returned(t, "disconnect_user")
        /\ before[t] = {Addr(t)}
        /\ Len(Issued(t)) = 3

\* C6: a connect_user that finds connections and returns has issued no compose
\* and no netlink operation, and the connections are the old ones and the new
\* address (one entry for a repeated address).
C6_LiveConnectOnlyAdds ==
    \A t \in Threads :
        (Returned(t, "connect_user") /\ before[t] # {}) =>
            /\ Issued(t) = <<>>
            /\ TheUser(t).connections = before[t] \cup {Addr(t)}
            /\ Addr(t) \in before[t] => Cardinality(TheUser(t).connections) = Cardinality(before[t])

\* a second connect from another port has returned: two entries
C6_SecondPort ==
    \E t \in Threads :
        /\ Returned(t, "connect_user")
        /\ before[t] # {}
        /\ Addr(t) \notin before[t]
        /\ Cardinality(TheUser(t).connections) = 2

\* a step keeps every User, its VLAN ID and every in-use VLAN of its Challenge
KeepsVlans ==
    \A c \in DOMAIN challenges :
        /\ c \in DOMAIN challenges'
        /\ challenges[c].vlans \subseteq challenges'[c].vlans
        /\ \A cn \in DOMAIN challenges[c].users :
              /\ cn \in DOMAIN challenges'[c].users
              /\ challenges'[c].users[cn].vlan = challenges[c].users[cn].vlan

\* C7: a User's VLAN ID never changes and never leaves the in-use set, and a
\* connect_user that returns returns that ID, also for a User that was IDLE.
C7_VlanStable ==
    /\ [](\A t \in Threads :
            Returned(t, "connect_user") =>
                /\ ret[t].kind = "value"
                /\ ret[t].value = TheUser(t).vlan
                /\ ret[t].value \in Chal(t).vlans)
    /\ [][KeepsVlans]_vars

\* a connect has booted the cluster of a User that existed, IDLE, before the call
C7_Reconnected ==
    \E t \in Threads :
        /\ Returned(t, "connect_user")
        /\ before[t] = {}
        /\ effects[t][1] = <<"top">>

\* C8: the step of register_challenge that finds the name registered returns
\* null and changes nothing of the Manager or the host; and no step replaces a
\* registered Challenge or takes a User or an in-use VLAN from it.
C8_DuplicateRegisterNoOp ==
    /\ [][\A t \in Threads :
            (pc[t] = "reg_body" /\ pc'[t] # "reg_body" /\ args[t].name \in DOMAIN challenges)
                => /\ pc'[t] = "done"
                   /\ ret'[t].kind = "none"
                   /\ UNCHANGED <<challenges, users_lock, user_lock, host>>]_vars
    /\ [][\A c \in DOMAIN challenges :
            /\ c \in DOMAIN challenges'
            /\ challenges'[c].name = challenges[c].name
            /\ challenges'[c].host_veth = challenges[c].host_veth
            /\ challenges'[c].compose_files = challenges[c].compose_files
            /\ challenges[c].vlans \subseteq challenges'[c].vlans
            /\ DOMAIN challenges[c].users \subseteq DOMAIN challenges'[c].users]_vars

\* a register_challenge with another host VETH than the registered one returned
C8_DuplicateReturned ==
    \E t \in Threads :
        /\ Returned(t, "register_challenge")
        /\ effects[t] = <<>>
        /\ challenges[args[t].name].host_veth # args[t].host_veth
        /\ challenges[args[t].name].users # <<>>

\* C9: a disconnect_user on a registered challenge for a pair that is not
\* recorded returns null, raises nothing and changes nothing: it constructs no
\* User, allocates no VLAN, issues no compose or netlink operation and leaves
\* the connections as they were.
C9_UnknownDisconnectNoOp ==
    \A t \in Threads :
        (args[t].op = "disconnect_user" /\ args[t].name \in DOMAIN challenges) =>
            /\ (pc[t] = "done" /\ Addr(t) \notin before[t]) =>
                  /\ ret[t].kind = "none"
                  /\ effects[t] = <<>>
                  /\ TheUser(t).connections = before[t]
            /\ pc[t] = "raised" => ret[t].exc \notin {"binascii.Error", "UnicodeDecodeError"}

\* C10: a disconnect_user that names a challenge that is not registered
\* returns null: no error reaches the caller.
C10_UnregisteredDisconnectQuiet ==
    \A t \in Threads :
        (args[t].op = "disconnect_user" /\ pc[t] \in {"done", "raised"}
            /\ args[t].name \notin DOMAIN challenges)
                => pc[t] = "done" /\ ret[t].kind = "none"

\* C11: a connect_user that names a challenge that is not registered raises
\* the lookup's error (KeyError) to its caller in its first step, and that step
\* changes nothing of the Manager or the host and issues no operation.
C11_UnregisteredConnectFails ==
    [][\A t \in Threads :
          (pc[t] = "idle" /\ pc'[t] # "idle" /\ args'[t].op = "connect_user"
              /\ args'[t].name \notin DOMAIN challenges)
                => /\ pc'[t] = "raised"
                   /\ ret'[t].exc = "KeyError"
                   /\ effects'[t] = <<>>
                   /\ UNCHANGED <<mgr, host>>]_vars

\* a connect_user for an unregistered challenge has raised
C11_ConnectRaised ==
    \E t \in Threads :
        /\ args[t].op = "connect_user"
        /\ pc[t] = "raised"
        /\ args[t].name \notin DOMAIN challenges
        /\ ret[t].exc = "KeyError"

\* s is an initial part of q
IsPrefix(s, q) == Len(s) <= Len(q) /\ SubSeq(q, 1, Len(s)) = s

\* the operations of a boot in their order: the probe, compose down with timeout
\* 3 (dn), compose up, the creation of the sub-interface (cr), its link up, and
\* the enslavement to the stripped bridge (br)
BootOrder(id, ifname, dn, cr, br) ==
    << <<"top">> >> \o (IF dn THEN << <<"down", 3>> >> ELSE <<>>)
        \o << <<"up">> >> \o (IF cr THEN << <<"create vlan", ifname>> >> ELSE <<>>)
        \o << <<"link up", ifname>> >>
        \o (IF br THEN << <<"del_ip", id>>, <<"add_port", id, ifname>> >> ELSE <<>>)

\* the thread is in add_connection's boot, or has left it with an exception
Booting(t) ==
    /\ args[t].op = "connect_user"
    /\ \/ pc[t] \in {"ac_probe", "ac_down", "ac_up", "evb_create", "evb_up", "evb_bridge",
                      "ac_add"}
       \/ pc[t] = "raised" /\ ret[t].exc \in {"CalledProcessError", "NetlinkError", "ValueError"}

\* C12: a connect_user that finds no connection issues its operations in the
\* order probe, compose down with timeout 3, compose up, create, link up,
\* enslave, and inserts the connection only when all succeeded; compose down
\* follows the probe if and only if the probe found the project running.
C12_BootOrder ==
    /\ [](\A t \in Threads :
            LET u == TheUser(t)
                ifname == IfnameOf(args[t].name, u)
            IN  /\ Booting(t) =>
                      /\ u.connections = {}
                      /\ \E dn, cr, br \in BOOLEAN :
                            IsPrefix(Issued(t), BootOrder(u.id, ifname, dn, cr, br))
                /\ (Returned(t, "connect_user") /\ before[t] = {}) =>
                      /\ u.connections = {Addr(t)}
                      /\ \E dn, cr, br \in BOOLEAN :
                            Issued(t) = BootOrder(u.id, ifname, dn, cr, br))
    /\ [][\A t \in Threads :
            /\ (pc[t] = "ac_probe" /\ pc'[t] = "ac_down") => TheUser(t).id \in running
            /\ (pc[t] = "ac_probe" /\ pc'[t] = "ac_up") => TheUser(t).id \notin running
            /\ (pc[t] = "ac_probe" /\ pc'[t] \notin {"ac_probe", "raised"})
                    => Issued(t)' = << <<"top">> >>
            /\ (pc[t] = "ac_down" /\ pc'[t] = "ac_up")
                    => Issued(t)' = << <<"top">>, <<"down", 3>> >>]_vars

\* a first connect found its project running, stopped it, booted and returned
C12_StaleClusterRebooted ==
    \E t \in Threads :
        /\ Returned(t, "connect_user")
        /\ before[t] = {}
        /\ Len(Issued(t)) >= 2
        /\ Issued(t)[2] = <<"down", 3>>
        /\ TheUser(t).connections = {Addr(t)}

\* C13: a thread in the loop of _next_vlan leaves it, with a VLAN ID or with
\* an error for its caller, also when every ID of [10, 4000] is in use.
C13_AllocationTerminates ==
    \A t \in Threads : (pc[t] = "next_vlan") ~> (pc[t] # "next_vlan")

\* C14: Manager._stop ends without an error, and when it has ended the
\* project of every User of every challenge has been stopped.
C14_StopStopsEveryUser ==
    /\ main_pc # "crashed"
    /\ main_pc = "exited" =>
          \A c \in DOMAIN challenges : \A u \in Users(c) : u.id \notin running

\* C15: a common name that does not decode does not abort connect_user: no
\* connect_user ends with the error of base32 or UTF-8 decoding.
C15_DecodeFailureTolerated ==
    \A t \in Threads :
        (args[t].op = "connect_user" /\ pc[t] = "raised")
            => ret[t].exc \notin {"binascii.Error", "UnicodeDecodeError"}

\* the listening socket has been closed
SocketClosed == main_pc \in {"_stop", "for_challenges", "for_users", "exited", "crashed"}

\* C16: whatever signals arrive, sig_handler starts the shutdown routine at
\* most once, and Manager._stop runs while the listening socket is still open.
C16_ShutdownOneShot ==
    /\ Cardinality({k \in 1..MaxSignals : workers[k] # "none"}) <= 1
    /\ main_pc \in {"for_challenges", "for_users"} => ~SocketClosed

\* the thread is inside add_connection or remove_connection, between two of
\* the method's compose and netlink calls
InUserOp(t) ==
    pc[t] \in {"ac_probe", "ac_down", "ac_up", "evb_create", "evb_up", "evb_bridge", "ac_add",
               "rc_probe", "rc_down", "rc_gone"}

\* C17: at most one thread is inside a mutating operation of one User: a
\* thread inside add_connection or remove_connection holds the User's lock, no
\* two threads are inside for the same User, and no thread enters or runs
\* such a method in one step while another thread is inside for that User.
C17_UserOpsExclusive ==
    /\ [](\A t \in Threads :
            InUserOp(t) =>
                /\ user_lock[UKey(t)] = t
                /\ \A o \in Threads \ {t} : InUserOp(o) => UKey(o) # UKey(t))
    /\ [][\A t \in Threads :
            (pc[t] = "user_op" /\ pc'[t] # "user_op")
                => \A o \in Threads \ {t} : InUserOp(o) => UKey(o) # UKey(t)]_vars

\* a thread waits for the lock of a User while another is inside remove_connection
C17_DisconnectHoldsOffConnect ==
    \E t, o \in Threads :
        /\ pc[t] \in {"rc_probe", "rc_down", "rc_gone"}
        /\ pc[o] = "user_op"
        /\ args[o].op = "connect_user"
        /\ UKey(o) = UKey(t)

\* C18: for one (challenge, cn) one User is created and one VLAN ID allocated:
\* every step that takes a VLAN ID into use stores, with that ID, a User for a
\* cn that had none, and changes no other User.
C18_OneUserOneVlan ==
    [][\A c \in DOMAIN challenges :
          LET new == challenges'[c].vlans \ challenges[c].vlans
              old == challenges[c].users
              now == challenges'[c].users
          IN  /\ \A cn \in DOMAIN old : cn \in DOMAIN now /\ now[cn].vlan = old[cn].vlan
              /\ new # {} =>
                    \E cn \in DOMAIN now \ DOMAIN old :
                        /\ DOMAIN now = DOMAIN old \cup {cn}
                        /\ new = {now[cn].vlan}]_vars

\* the thread (an RPC thread or the main thread) holds the Manager's lock or
\* the users_lock of a challenge
HoldsOuterLock(t) ==
    challenges_lock = t \/ \E c \in ChallengeNames : users_lock[c] = t

\* C19: a thread that is at or inside add_connection or remove_connection
\* holds neither the Manager's lock nor a users_lock, and while the main
\* thread holds them in _stop no compose or netlink operation changes the
\* host and no User's lock is taken.
C19_NoOuterLockAcrossUserOps ==
    /\ [](\A t \in Threads : (pc[t] = "user_op" \/ InUserOp(t)) => ~HoldsOuterLock(t))
    /\ [][HoldsOuterLock(MainThread) => UNCHANGED <<host, user_lock>>]_vars

\* _stop has reached, under both locks, the Users of a challenge that has one
C19_StopAtUsers ==
    /\ main_pc = "for_users"
    /\ \E c \in DOMAIN challenges :
          /\ users_lock[c] = MainThread
          /\ DOMAIN challenges[c].users # {}
          /\ \E u \in Users(c) : u.id \in running

\* the RPC threads and the main thread
AllThreads == Threads \cup {MainThread}

HoldsUserLock(x) == \E k \in DOMAIN user_lock : user_lock[k] = x
HoldsUsersLock(x) == \E c \in ChallengeNames : users_lock[c] = x

\* the thread that holds the lock the RPC thread is waiting for, or NoThread
WaitsFor(t) ==
    IF pc[t] = "ensure_lock" /\ ~Free(users_lock[args[t].name], t)
    THEN users_lock[args[t].name]
    ELSE IF pc[t] = "user_op" /\ ~Free(user_lock[UKey(t)], t)
    THEN user_lock[UKey(t)]
    ELSE NoThread

\* C20: locks are taken in the order Manager lock, users_lock, User lock: a
\* thread that takes the Manager lock holds no users_lock and no User lock, a
\* thread that takes a users_lock holds no User lock; and no wait is circular:
\* a thread waits only for a lock whose holder is an RPC thread that itself
\* waits for nothing, and the main thread finds the locks of _stop free.
C20_LockOrder ==
    /\ [][\A x \in AllThreads :
            /\ (challenges_lock # x /\ challenges_lock' = x)
                    => ~HoldsUsersLock(x) /\ ~HoldsUserLock(x)
            /\ \A c \in ChallengeNames :
                  (users_lock[c] # x /\ users_lock'[c] = x) => ~HoldsUserLock(x)]_vars
    /\ [](\A t \in Threads :
            WaitsFor(t) # NoThread =>
                /\ WaitsFor(t) \in Threads
                /\ WaitsFor(WaitsFor(t)) = NoThread)
    /\ [](/\ main_pc = "_stop" => Free(challenges_lock, MainThread)
          /\ main_pc = "for_challenges" =>
                \A c \in stop_todo : Free(users_lock[c], MainThread))

\* a first connect waits for users_lock while the other thread allocates, and
\* a signal has started the shutdown
C20_WaitsForUsersLock ==
    \E t, o \in Threads :
        /\ pc[t] = "ensure_lock"
        /\ pc[o] = "next_vlan"
        /\ WaitsFor(t) = o
        /\ is_shutdown

\* the thread's connect_user has raised in ensure_vlan_bridged, after compose up
BridgingFailed(t) ==
    /\ args[t].op = "connect_user"
    /\ pc[t] = "raised"
    /\ <<"up">> \in Range(Issued(t))

\* the User of challenge c with common name cn has no connection and a running
\* cluster, and no thread is inside one of its methods
Stranded(c, cn) ==
    /\ challenges[c].users[cn].connections = {}
    /\ challenges[c].users[cn].id \in running
    /\ user_lock[<<c, cn>>] = NoThread

\* C21: a first connect whose compose up succeeded and whose ensure_vlan_bridged
\* failed (netlink error, or no default network) hands the error to its
\* caller, has added no connection and leaves the cluster running; the cluster
\* stays so until a connect_user for that User enters add_connection's boot,
\* and that boot, whose probe finds the project running, issues compose down
\* with timeout 3 and then compose up before it comes to the bridging.
C21_FailedBridgingLeavesClusterUp ==
    /\ [](\A t \in Threads :
            BridgingFailed(t) =>
                /\ ret[t].kind = "raise"
                /\ ret[t].exc \in {"NetlinkError", "ValueError"}
                /\ before[t] = {}
                /\ Stranded(args[t].name, args[t].cn))
    /\ [][\A c \in DOMAIN challenges : \A cn \in DOMAIN challenges[c].users :
            Stranded(c, cn) =>
                \/ Stranded(c, cn)'
                \/ \E t \in Threads :
                      /\ pc[t] = "user_op" /\ pc'[t] = "ac_probe"
                      /\ args[t].op = "connect_user"
                      /\ UKey(t) = <<c, cn>>
                      /\ challenges'[c].users[cn].id \in running']_vars
    /\ [][\A t \in Threads :
            /\ (pc[t] = "ac_probe" /\ TheUser(t).id \in running /\ pc'[t] # "ac_probe")
                    => pc'[t] \in {"ac_down", "raised"}
            /\ (pc[t] = "ac_down" /\ pc'[t] # "ac_down")
                    => \/ pc'[t] = "raised"
                       \/ pc'[t] = "ac_up" /\ Issued(t)' = << <<"top">>, <<"down", 3>> >>
            /\ (pc[t] = "ac_up" /\ pc'[t] # "ac_up")
                    => \/ pc'[t] = "raised"
                       \/ /\ pc'[t] = "evb_create"
                          /\ Issued(t)'[Len(Issued(t)')] = <<"up">>
                          /\ TheUser(t).id \in running'
            /\ pc'[t] \in {"evb_create", "evb_up", "evb_bridge"} /\ pc[t] # pc'[t]
                    => <<"up">> \in Range(Issued(t)')]_vars

\* a connect whose compose up succeeded failed at the link up of the
\* sub-interface it created; the next connect for the User has found the
\* project running, stopped and started it, and comes to the bridging
C21_RebootAfterFailedBridging ==
    \E t \in Threads :
        /\ pc[t] = "evb_create"
        /\ Issued(t) = << <<"top">>, <<"down", 3>>, <<"up">> >>
        /\ VlanIfname(t) \in DOMAIN interfaces
        /\ interfaces[VlanIfname(t)].state = "down"

\* the thread's disconnect_user removed the last connection, its probe found
\* the project running, and the call has ended with the project still running:
\* its compose down failed
DownFailed(t) ==
    /\ args[t].op = "disconnect_user"
    /\ pc[t] \in {"done", "raised"}
    /\ before[t] = {Addr(t)}
    /\ Issued(t) # <<>>
    /\ Issued(t)[1] = <<"top">>
    /\ TheUser(t).id \in running

\* C22: when the last connection of a User is removed and compose down fails,
\* ensure_vlan_gone is attempted all the same: at the end of the call no
\* interface with the name of the User's VLAN sub-interface exists.
C22_DownFailureStillRemovesVlan ==
    \A t \in Threads :
        DownFailed(t) => IfnameOf(args[t].name, TheUser(t)) \notin DOMAIN interfaces

\* the thread's disconnect_user of a recorded connection has raised
RemoveRaised(t) ==
    /\ args[t].op = "disconnect_user"
    /\ pc[t] = "raised"
    /\ Addr(t) \in before[t]

\* C23: a remove_connection that raises (the probe, compose down or the
\* removal of the sub-interface fails while the last connection is drained)
\* leaves the User's connections as it found them, so that the same
\* disconnect_user, repeated, finds its connection and retries the teardown.
C23_FailedRemoveKeepsConnection ==
    \A t \in Threads : RemoveRaised(t) => TheUser(t).connections = before[t]

\* the (challenge, cn) pairs that have a User
Pairs == {k \in ChallengeNames \X CNs :
             k[1] \in DOMAIN challenges /\ k[2] \in DOMAIN challenges[k[1]].users}

UserOf(k) == challenges[k[1]].users[k[2]]

\* the thread is in ensure_vlan_bridged, past the lookup of its interface name
Bridging(t) == pc[t] \in {"evb_up", "evb_bridge"}

\* C24: two distinct (challenge, user) pairs never use one VLAN sub-interface:
\* the interface ensure_vlan_bridged works on, created or found under the
\* computed name and reused, has the host VETH of the User's own challenge as
\* parent and the User's VLAN ID; no two LIVE Users compute the same name,
\* also when host VETH names are truncated; and no computed name is longer
\* than 15 bytes.
C24_SubInterfaceNotShared ==
    /\ \A t \in Threads :
          (Bridging(t) /\ VlanIfname(t) \in DOMAIN interfaces) =>
              /\ interfaces[VlanIfname(t)].link = Chal(t).host_veth
              /\ interfaces[VlanIfname(t)].vlan_id = TheUser(t).vlan
    /\ \A k1, k2 \in Pairs :
          (k1 # k2 /\ Live(UserOf(k1)) /\ Live(UserOf(k2)))
              => IfnameOf(k1[1], UserOf(k1)) # IfnameOf(k2[1], UserOf(k2))
    /\ \A k \in Pairs : Len(IfnameOf(k[1], UserOf(k))) <= 15

====
